---------------------------- MODULE Spec2Model ----------------------------
(***************************************************************************)
(* The lexer of the STEPS language (package steps.compiler.lexer): the     *)
(* driver tokenize, the tokenizer states, the tokenizer context and the    *)
(* keyword and symbol tables derived from the TokenKind enumeration.       *)
(*                                                                         *)
(* A character is modelled by a string: printable characters by            *)
(* themselves, the others by their names (NUL, SUB, LF, CR, TAB, BOM,      *)
(* UNDERTIE).  A text is a sequence of characters.                         *)
(***************************************************************************)
EXTENDS Integers, Sequences, FiniteSets, TLC

\* Longest input, in characters, that a scan reads before its source is exhausted.
MaxLen == 4
\* Longest input of each of the two scans that share the module's tables.
PairMaxLen == 2

NUL == "NUL"
SUB == "SUB"
LF == "LF"
CR == "CR"
TAB == "TAB"
BOM == "BOM"
UNDERTIE == "UNDERTIE"

\* The characters the modelled sources are made of.
Alphabet ==
    {"i", "f", "_", UNDERTIE, "1", "<", "=", ">", "?", " ", "#", LF, CR, NUL, SUB, BOM}

\* The characters of the sources of two scans that run side by side.
PairAlphabet == {"i", "f", " "}

LowerCase ==
    <<"a", "b", "c", "d", "e", "f", "g", "h", "i", "j", "k", "l", "m",
      "n", "o", "p", "q", "r", "s", "t", "u", "v", "w", "x", "y", "z">>

UpperCase ==
    <<"A", "B", "C", "D", "E", "F", "G", "H", "I", "J", "K", "L", "M",
      "N", "O", "P", "Q", "R", "S", "T", "U", "V", "W", "X", "Y", "Z">>

Range(seq) == {seq[k] : k \in DOMAIN seq}

\* unicodedata.category of the characters that occur in the model.
category(char) ==
    CASE char \in Range(LowerCase) -> "Ll"
      [] char \in Range(UpperCase) -> "Lu"
      [] char = "1" -> "Nd"
      [] char \in {"_", UNDERTIE} -> "Pc"
      [] char \in {NUL, SUB, LF, CR, TAB} -> "Cc"
      [] char = BOM -> "Cf"
      [] char = " " -> "Zs"
      [] char \in {"<", "=", ">", "+", "^", "|", "~"} -> "Sm"
      [] char = "$" -> "Sc"
      [] char \in {"(", "[", "{"} -> "Ps"
      [] char \in {")", "]", "}"} -> "Pe"
      [] char = "-" -> "Pd"
      [] OTHER -> "Po"

\* str.isalpha
isalpha(char) == category(char) \in {"Lm", "Lt", "Lu", "Ll", "Lo"}

\* str.isspace
isspace(char) == char \in {" ", TAB, LF, CR}

\* str.upper, character by character
upper_char(char) ==
    IF \E k \in DOMAIN LowerCase : LowerCase[k] = char
    THEN UpperCase[CHOOSE k \in DOMAIN LowerCase : LowerCase[k] = char]
    ELSE char

RECURSIVE upper(_)
upper(term) == IF term = <<>> THEN "" ELSE upper_char(Head(term)) \o upper(Tail(term))

\* str.startswith
startswith(text, prefix) ==
    Len(prefix) <= Len(text) /\ SubSeq(text, 1, Len(prefix)) = prefix

(***************************************************************************)
(* classes.py                                                              *)
(***************************************************************************)
\* is_eof, had it known the sentinel only.
is_eof_of_sentinel(char) == char = NUL

is_eof(char) == char \in {NUL, SUB}

is_eol(char) == char \in {CR, LF}

is_identifier_start(char) == category(char) \in {"Ll", "Lm", "Lo", "Lt", "Lu", "Nl"}

is_identifier_continue(char) ==
    category(char) \in {"Ll", "Lm", "Lo", "Lt", "Lu", "Nd", "Nl", "Mn", "Mc"}

is_identifier_connector(char) == category(char) = "Pc"

\* is_symbolic, had the # been among its characters.
is_symbolic_with_hash(char) ==
    char \in {"!", "#", "$", "%", "&", "(", ")", "*", "+", ",", "-", ".", "/", ":", ";",
              "<", "=", ">", "?", "@", "[", "\\", "]", "^", "{", "|", "}", "~"}

is_symbolic(char) ==
    char \in {"!", "$", "%", "&", "(", ")", "*", "+", ",", "-", ".", "/", ":", ";",
              "<", "=", ">", "?", "@", "[", "\\", "]", "^", "{", "|", "}", "~"}

(***************************************************************************)
(* token.py: the TokenKind enumeration, in its order of definition.  The   *)
(* name of a member is head \o tail (head holds its first three            *)
(* characters), its value is the spelling.                                 *)
(***************************************************************************)
TokenKind == <<
    [head |-> "WHI", tail |-> "TE_SPACE", value |-> <<"<", "W", "S", ">">>],
    [head |-> "END", tail |-> "_OF_LINE", value |-> <<"<", "E", "O", "L", ">">>],
    [head |-> "IDE", tail |-> "NTIFIER", value |-> <<"<", "I", "D", "E", "N", "T", "I", "F", "I", "E", "R", ">">>],
    [head |-> "DUM", tail |-> "MY_IDENTIFIER", value |-> <<"<", "D", "U", "M", "M", "Y", " ", "I", "D", "E", "N", "T", "I", "F", "I", "E", "R", ">">>],
    [head |-> "KW_", tail |-> "AND", value |-> <<"a", "n", "d">>],
    [head |-> "KW_", tail |-> "AS", value |-> <<"a", "s">>],
    [head |-> "KW_", tail |-> "ASSERT", value |-> <<"a", "s", "s", "e", "r", "t">>],
    [head |-> "KW_", tail |-> "AXIOM", value |-> <<"a", "x", "i", "o", "m">>],
    [head |-> "KW_", tail |-> "CASE", value |-> <<"c", "a", "s", "e">>],
    [head |-> "KW_", tail |-> "DIV", value |-> <<"d", "i", "v">>],
    [head |-> "KW_", tail |-> "ELSE", value |-> <<"e", "l", "s", "e">>],
    [head |-> "KW_", tail |-> "EMIT", value |-> <<"e", "m", "i", "t">>],
    [head |-> "KW_", tail |-> "ENUM", value |-> <<"e", "n", "u", "m">>],
    [head |-> "KW_", tail |-> "EXTENDS", value |-> <<"e", "x", "t", "e", "n", "d", "s">>],
    [head |-> "KW_", tail |-> "FINALLY", value |-> <<"f", "i", "n", "a", "l", "l", "y">>],
    [head |-> "KW_", tail |-> "FN", value |-> <<"f", "n">>],
    [head |-> "KW_", tail |-> "FORWARD", value |-> <<"f", "o", "r", "w", "a", "r", "d">>],
    [head |-> "KW_", tail |-> "FORWARDER", value |-> <<"f", "o", "r", "w", "a", "r", "d", "e", "r">>],
    [head |-> "KW_", tail |-> "FROM", value |-> <<"f", "r", "o", "m">>],
    [head |-> "KW_", tail |-> "GIVEN", value |-> <<"g", "i", "v", "e", "n">>],
    [head |-> "KW_", tail |-> "IF", value |-> <<"i", "f">>],
    [head |-> "KW_", tail |-> "IMPORT", value |-> <<"i", "m", "p", "o", "r", "t">>],
    [head |-> "KW_", tail |-> "IN", value |-> <<"i", "n">>],
    [head |-> "KW_", tail |-> "INV", value |-> <<"i", "n", "v">>],
    [head |-> "KW_", tail |-> "INITIALLY", value |-> <<"i", "n", "i", "t", "i", "a", "l", "l", "y">>],
    [head |-> "KW_", tail |-> "LEMMA", value |-> <<"l", "e", "m", "m", "a">>],
    [head |-> "KW_", tail |-> "LET", value |-> <<"l", "e", "t">>],
    [head |-> "KW_", tail |-> "MOD", value |-> <<"m", "o", "d">>],
    [head |-> "KW_", tail |-> "NEW", value |-> <<"n", "e", "w">>],
    [head |-> "KW_", tail |-> "NOT", value |-> <<"n", "o", "t">>],
    [head |-> "KW_", tail |-> "OF", value |-> <<"o", "f">>],
    [head |-> "KW_", tail |-> "OP", value |-> <<"o", "p">>],
    [head |-> "KW_", tail |-> "OR", value |-> <<"o", "r">>],
    [head |-> "KW_", tail |-> "PROC", value |-> <<"p", "r", "o", "c">>],
    [head |-> "KW_", tail |-> "PURE", value |-> <<"p", "u", "r", "e">>],
    [head |-> "KW_", tail |-> "RETURN", value |-> <<"r", "e", "t", "u", "r", "n">>],
    [head |-> "KW_", tail |-> "SPAWN", value |-> <<"s", "p", "a", "w", "n">>],
    [head |-> "KW_", tail |-> "SWITCH", value |-> <<"s", "w", "i", "t", "c", "h">>],
    [head |-> "KW_", tail |-> "THEOREM", value |-> <<"t", "h", "e", "o", "r", "e", "m">>],
    [head |-> "KW_", tail |-> "THEN", value |-> <<"t", "h", "e", "n">>],
    [head |-> "KW_", tail |-> "TYPE", value |-> <<"t", "y", "p", "e">>],
    [head |-> "KW_", tail |-> "VAR", value |-> <<"v", "a", "r">>],
    [head |-> "KW_", tail |-> "VARIANT", value |-> <<"v", "a", "r", "i", "a", "n", "t">>],
    [head |-> "KW_", tail |-> "WHERE", value |-> <<"w", "h", "e", "r", "e">>],
    [head |-> "KW_", tail |-> "WHILE", value |-> <<"w", "h", "i", "l", "e">>],
    [head |-> "KW_", tail |-> "XOR", value |-> <<"x", "o", "r">>],
    [head |-> "EOF", tail |-> "", value |-> <<"<", "E", "O", "F", ">">>],
    [head |-> "ERR", tail |-> "_IDENTIFIER", value |-> <<"E", "R", "R", "O", "R", " ", "<", "I", "D", "E", "N", "T", "I", "F", "I", "E", "R", ">">>],
    [head |-> "LEF", tail |-> "T_PARENTHESIS", value |-> <<"(">>],
    [head |-> "RIG", tail |-> "HT_PARENTHESIS", value |-> <<")">>],
    [head |-> "LEF", tail |-> "T_BRACKET", value |-> <<"[">>],
    [head |-> "RIG", tail |-> "HT_BRACKET", value |-> <<"]">>],
    [head |-> "LEF", tail |-> "T_BRACE", value |-> <<"{">>],
    [head |-> "RIG", tail |-> "HT_BRACE", value |-> <<"}">>],
    [head |-> "COM", tail |-> "MA", value |-> <<",">>],
    [head |-> "COL", tail |-> "ON", value |-> <<":">>],
    [head |-> "DOT", tail |-> "", value |-> <<".">>],
    [head |-> "DOT", tail |-> "DOT", value |-> <<".", ".">>],
    [head |-> "ELL", tail |-> "IPSIS", value |-> <<".", ".", ".">>],
    [head |-> "RIG", tail |-> "HT_ARROW", value |-> <<"-", ">">>],
    [head |-> "RES", tail |-> "ERVED_SEMICOLON", value |-> <<";">>],
    [head |-> "RES", tail |-> "ERVED_COMMERCIAL_AT", value |-> <<"@">>],
    [head |-> "RES", tail |-> "ERVED_EXCLAMATION_MARK", value |-> <<"!">>],
    [head |-> "RES", tail |-> "ERVED_AMPERSAND", value |-> <<"&">>],
    [head |-> "RES", tail |-> "ERVED_PERCENT", value |-> <<"%">>],
    [head |-> "RES", tail |-> "ERVED_DOLLAR", value |-> <<"$">>],
    [head |-> "OP_", tail |-> "EQ", value |-> <<"=">>],
    [head |-> "OP_", tail |-> "LT", value |-> <<"<">>],
    [head |-> "OP_", tail |-> "GT", value |-> <<">">>],
    [head |-> "OP_", tail |-> "LEQ", value |-> <<"<", "=">>],
    [head |-> "OP_", tail |-> "GEQ", value |-> <<">", "=">>],
    [head |-> "OP_", tail |-> "NEQ", value |-> <<"<", ">">>],
    [head |-> "OP_", tail |-> "ASSIGN", value |-> <<":", "=">>],
    [head |-> "OP_", tail |-> "CROSS", value |-> <<">", "<">>],
    [head |-> "OP_", tail |-> "PLUS", value |-> <<"+">>],
    [head |-> "OP_", tail |-> "MINUS", value |-> <<"-">>],
    [head |-> "OP_", tail |-> "MULTIPLY", value |-> <<"*">>],
    [head |-> "OP_", tail |-> "DIVIDE", value |-> <<"/">>],
    [head |-> "OP_", tail |-> "PLUS_ASSIGN", value |-> <<"+", "=">>],
    [head |-> "OP_", tail |-> "MINUS_ASSIGN", value |-> <<"-", "=">>],
    [head |-> "OP_", tail |-> "MULTIPLY_ASSIGN", value |-> <<"*", "=">>],
    [head |-> "OP_", tail |-> "DIVIDE_ASSIGN", value |-> <<"/", "=">>],
    [head |-> "OP_", tail |-> "EXPONENT", value |-> <<"^">>],
    [head |-> "OP_", tail |-> "CIRCLED_EQ", value |-> <<"(", "=", ")">>],
    [head |-> "OP_", tail |-> "CIRCLED_LT", value |-> <<"(", "<", ")">>],
    [head |-> "OP_", tail |-> "CIRCLED_GT", value |-> <<"(", ">", ")">>],
    [head |-> "OP_", tail |-> "CIRCLED_LEQ", value |-> <<"(", "<", "=", ")">>],
    [head |-> "OP_", tail |-> "CIRCLED_GEQ", value |-> <<"(", ">", "=", ")">>],
    [head |-> "OP_", tail |-> "CIRCLED_NEQ", value |-> <<"(", "<", ">", ")">>],
    [head |-> "OP_", tail |-> "CIRCLED_CROSS", value |-> <<"(", ">", "<", ")">>],
    [head |-> "OP_", tail |-> "CIRCLED_PLUS", value |-> <<"(", "+", ")">>],
    [head |-> "OP_", tail |-> "CIRCLED_MINUS", value |-> <<"(", "-", ")">>],
    [head |-> "OP_", tail |-> "CIRCLED_MULTIPLY", value |-> <<"(", "*", ")">>],
    [head |-> "OP_", tail |-> "CIRCLED_DIVIDE", value |-> <<"(", "/", ")">>],
    [head |-> "OP_", tail |-> "CIRCLED_DOT", value |-> <<"(", ".", ")">>],
    [head |-> "OP_", tail |-> "BOXED_EQ", value |-> <<"[", "=", "]">>],
    [head |-> "OP_", tail |-> "BOXED_LT", value |-> <<"[", "<", "]">>],
    [head |-> "OP_", tail |-> "BOXED_GT", value |-> <<"[", ">", "]">>],
    [head |-> "OP_", tail |-> "BOXED_LEQ", value |-> <<"[", "<", "=", "]">>],
    [head |-> "OP_", tail |-> "BOXED_GEQ", value |-> <<"[", ">", "=", "]">>],
    [head |-> "OP_", tail |-> "BOXED_NEQ", value |-> <<"[", "<", ">", "]">>],
    [head |-> "OP_", tail |-> "BOXED_CROSS", value |-> <<"[", ">", "<", "]">>],
    [head |-> "OP_", tail |-> "BOXED_PLUS", value |-> <<"[", "+", "]">>],
    [head |-> "OP_", tail |-> "BOXED_MINUS", value |-> <<"[", "-", "]">>],
    [head |-> "OP_", tail |-> "BOXED_MULTIPLY", value |-> <<"[", "*", "]">>],
    [head |-> "OP_", tail |-> "BOXED_DIVIDE", value |-> <<"[", "/", "]">>],
    [head |-> "OP_", tail |-> "BOXED_DOT", value |-> <<"[", ".", "]">>],
    [head |-> "OP_", tail |-> "PARENTHESES", value |-> <<"(", ")">>],
    [head |-> "OP_", tail |-> "BRACKETS", value |-> <<"[", "]">>],
    [head |-> "OP_", tail |-> "BRACES", value |-> <<"{", "}">>]
>>

name(kind) == kind.head \o kind.tail

\* EXTRA_TOKENS, had it held EOF as well.
EXTRA_TOKENS_with_eof == {"WHITE_SPACE", "EOF"}

\* EXTRA_TOKENS, had it been empty.
EXTRA_TOKENS_empty == {}

EXTRA_TOKENS == {"WHITE_SPACE"}

Token(kind, img, line, column) ==
    [kind |-> kind, img |-> img, line |-> line, column |-> column]

\* TokenizerContext(), had it counted lines from 0.
NewContext_from_line_0 ==
    [is_at_bof |-> TRUE, current_line |-> 0, current_column |-> 0,
     more |-> <<>>, more_line |-> -1, more_column |-> -1]

\* TokenizerContext()
NewContext ==
    [is_at_bof |-> TRUE, current_line |-> 1, current_column |-> 0,
     more |-> <<>>, more_line |-> -1, more_column |-> -1]

\* add_more, had it assigned the character where it appends it.
add_more_assigning(context, char) ==
    [context EXCEPT
        !.more_line = IF context.more = <<>> THEN context.current_line ELSE @,
        !.more_column = IF context.more = <<>> THEN context.current_column ELSE @,
        !.more = <<char>>]

add_more(context, char) ==
    [context EXCEPT
        !.more_line = IF context.more = <<>> THEN context.current_line ELSE @,
        !.more_column = IF context.more = <<>> THEN context.current_column ELSE @,
        !.more = @ \o <<char>>]

\* terminate_more: the token it returns, and the context it leaves.
terminate_more_result(context, kind) ==
    Token(kind, context.more, context.more_line, context.more_column)

\* terminate_more, had it left the buffer as it was.
terminate_more_keeping(context) ==
    [context EXCEPT !.more_line = -1, !.more_column = -1]

terminate_more(context) ==
    [context EXCEPT !.more = <<>>, !.more_line = -1, !.more_column = -1]

next_line(context) ==
    [context EXCEPT !.current_line = @ + 1, !.current_column = 0]

(***************************************************************************)
(* states.py: the tables, built when the module is imported.               *)
(***************************************************************************)
\* The spellings the generator expression KEYWORDS yields, in order.
KeywordSpellings ==
    LET kws == SelectSeq(TokenKind, LAMBDA kind : kind.head = "KW_")
    IN  [k \in DOMAIN kws |-> kws[k].value]

\* The dict SYMBOLS: its keys in insertion order, and its lookup.
SYMBOLS_keys ==
    LET syms == SelectSeq(TokenKind,
                          LAMBDA kind : ~ \E k \in DOMAIN kind.value : isalpha(kind.value[k]))
    IN  [k \in DOMAIN syms |-> syms[k].value]

SYMBOLS(symbol) ==
    name(TokenKind[CHOOSE k \in DOMAIN TokenKind : TokenKind[k].value = symbol])

RECURSIVE max_len(_)
max_len(texts) ==
    IF texts = <<>> THEN 0
    ELSE LET rest == max_len(Tail(texts))
         IN  IF Len(Head(texts)) > rest THEN Len(Head(texts)) ELSE rest

\* sorted(texts, key=len, reverse=True): a stable sort, longest first.
RECURSIVE sorted_from(_, _)
sorted_from(texts, length) ==
    IF length = 0 THEN <<>>
    ELSE SelectSeq(texts, LAMBDA t : Len(t) = length) \o sorted_from(texts, length - 1)

sorted_by_len_reverse(texts) == sorted_from(texts, max_len(texts))

\* SYMBOL_LIST, had it been left in the order of the enumeration.
SYMBOL_LIST_unsorted == SYMBOLS_keys

SYMBOL_LIST == sorted_by_len_reverse(SYMBOLS_keys)

(***************************************************************************)
(* What a call of a state returns: the tokens, the next state, the context *)
(* and the keyword generator as the call left them, and the message of the *)
(* TokenizerError it raised (<<>> when it returned): its text and the     *)
(* character or symbol it names.  When it raised, `dropped` holds the     *)
(* tokens it had built by then: locals that the exception discards.        *)
(***************************************************************************)
Return(tokens, state, context, keywords) ==
    [tokens |-> tokens, state |-> state, context |-> context,
     keywords |-> keywords, raised |-> <<>>, dropped |-> <<>>]

Raise(message, context, keywords) ==
    [tokens |-> <<>>, state |-> "None", context |-> context,
     keywords |-> keywords, raised |-> message, dropped |-> <<>>]

\* `term in KEYWORDS` on the generator, which has yielded the first `keywords`
\* spellings: what it answers, and how many spellings it has yielded after.
keywords_found(term, keywords) ==
    \E k \in (keywords + 1)..Len(KeywordSpellings) : KeywordSpellings[k] = term

keywords_left(term, keywords) ==
    IF keywords_found(term, keywords)
    THEN CHOOSE k \in (keywords + 1)..Len(KeywordSpellings) :
             /\ KeywordSpellings[k] = term
             /\ \A j \in (keywords + 1)..(k - 1) : KeywordSpellings[j] # term
    ELSE Len(KeywordSpellings)

check_keywords(term, keywords) ==
    IF keywords_found(term, keywords) THEN "KW_" \o upper(term)
    ELSE IF startswith(term, <<"_">>) THEN "DUMMY_IDENTIFIER"
    ELSE "IDENTIFIER"

RECURSIVE tok_start(_, _, _)
RECURSIVE call(_, _, _, _)

\* [term_token] + next_tokens, unless the forwarded state raised.
forwarded(term_tokens, next) ==
    IF next.raised # <<>> THEN [next EXCEPT !.dropped = term_tokens \o @]
    ELSE [next EXCEPT !.tokens = term_tokens \o @]

terminate_and_forward(context, keywords, kind, char, forward_state) ==
    forwarded(<<terminate_more_result(context, kind)>>,
              call(forward_state, char, terminate_more(context), keywords))

\* tok_eol, had \r accumulated like \n.
tok_eol_accumulating(char, context, keywords) ==
    IF char = LF \/ char = CR THEN Return(<<>>, "tok_eol", add_more(context, char), keywords)
    ELSE terminate_and_forward(next_line(context), keywords, "END_OF_LINE", char, "tok_start")

tok_eol(char, context, keywords) ==
    IF char = LF THEN Return(<<>>, "tok_eol", add_more(context, char), keywords)
    ELSE IF char = CR
    THEN LET moved == next_line(add_more(context, char))
         IN  Return(<<terminate_more_result(moved, "END_OF_LINE")>>, "tok_start",
                    terminate_more(moved), keywords)
    ELSE terminate_and_forward(next_line(context), keywords, "END_OF_LINE", char, "tok_start")

\* tok_comment ending the comment at an end-of-stream character as at an
\* end of line.
tok_comment_ending_at_eof(char, context, keywords) ==
    IF is_eol(char) \/ is_eof(char)
    THEN terminate_and_forward(context, keywords, "WHITE_SPACE", char, "tok_start")
    ELSE Return(<<>>, "tok_comment", add_more(context, char), keywords)

tok_comment(char, context, keywords) ==
    IF is_eol(char)
    THEN terminate_and_forward(context, keywords, "WHITE_SPACE", char, "tok_start")
    ELSE Return(<<>>, "tok_comment", add_more(context, char), keywords)

\* tok_whitespace ending the whitespace token where a comment starts.
tok_whitespace_before_comment(char, context, keywords) ==
    IF is_eol(char)
    THEN terminate_and_forward(context, keywords, "WHITE_SPACE", char, "tok_eol")
    ELSE IF isspace(char)
    THEN Return(<<>>, "tok_whitespace", add_more(context, char), keywords)
    ELSE IF char = "#"
    THEN terminate_and_forward(context, keywords, "WHITE_SPACE", char, "tok_comment")
    ELSE terminate_and_forward(context, keywords, "WHITE_SPACE", char, "tok_start")

tok_whitespace(char, context, keywords) ==
    IF is_eol(char)
    THEN terminate_and_forward(context, keywords, "WHITE_SPACE", char, "tok_eol")
    ELSE IF isspace(char)
    THEN Return(<<>>, "tok_whitespace", add_more(context, char), keywords)
    ELSE IF char = "#" THEN tok_comment(char, context, keywords)
    ELSE terminate_and_forward(context, keywords, "WHITE_SPACE", char, "tok_start")

\* tok_identifier taking an end-of-stream character for a part of the
\* identifier.
tok_identifier_over_eof(char, context, keywords) ==
    IF is_identifier_continue(char) \/ is_eof(char)
    THEN Return(<<>>, "tok_identifier", add_more(context, char), keywords)
    ELSE IF is_identifier_connector(char)
    THEN Return(<<>>, "tok_identifier_connector", add_more(context, char), keywords)
    ELSE terminate_and_forward(context, keywords_left(context.more, keywords),
                               check_keywords(context.more, keywords), char, "tok_start")

tok_identifier(char, context, keywords) ==
    IF is_identifier_continue(char)
    THEN Return(<<>>, "tok_identifier", add_more(context, char), keywords)
    ELSE IF is_identifier_connector(char)
    THEN Return(<<>>, "tok_identifier_connector", add_more(context, char), keywords)
    ELSE terminate_and_forward(context, keywords_left(context.more, keywords),
                               check_keywords(context.more, keywords), char, "tok_start")

\* tok_identifier_connector resolving an identifier that ends with a
\* connector like any other identifier.
tok_identifier_connector_resolving(char, context, keywords) ==
    IF is_identifier_continue(char)
    THEN Return(<<>>, "tok_identifier", add_more(context, char), keywords)
    ELSE IF is_identifier_connector(char)
    THEN Return(<<>>, "err_identifier", add_more(context, char), keywords)
    ELSE IF context.more = <<"_">>
    THEN terminate_and_forward(context, keywords, "DUMMY_IDENTIFIER", char, "tok_start")
    ELSE terminate_and_forward(context, keywords_left(context.more, keywords),
                               check_keywords(context.more, keywords), char, "tok_start")

tok_identifier_connector(char, context, keywords) ==
    IF is_identifier_continue(char)
    THEN Return(<<>>, "tok_identifier", add_more(context, char), keywords)
    ELSE IF is_identifier_connector(char)
    THEN Return(<<>>, "err_identifier", add_more(context, char), keywords)
    ELSE IF context.more = <<"_">>
    THEN terminate_and_forward(context, keywords, "DUMMY_IDENTIFIER", char, "tok_start")
    ELSE terminate_and_forward(context, keywords, "ERR_IDENTIFIER", char, "tok_start")

\* err_identifier resolving the run it ends like a well-formed identifier.
err_identifier_resolving(char, context, keywords) ==
    IF is_identifier_continue(char) \/ is_identifier_connector(char)
    THEN Return(<<>>, "err_identifier", add_more(context, char), keywords)
    ELSE terminate_and_forward(context, keywords_left(context.more, keywords),
                               check_keywords(context.more, keywords), char, "tok_start")

err_identifier(char, context, keywords) ==
    IF is_identifier_continue(char) \/ is_identifier_connector(char)
    THEN Return(<<>>, "err_identifier", add_more(context, char), keywords)
    ELSE terminate_and_forward(context, keywords, "ERR_IDENTIFIER", char, "tok_start")

\* The first symbol of SYMBOL_LIST that the buffer starts with, if there is one.
pop_symbolic_matches(context) ==
    \E k \in DOMAIN SYMBOL_LIST : startswith(context.more, SYMBOL_LIST[k])

pop_symbolic_symbol(context) ==
    SYMBOL_LIST[CHOOSE k \in DOMAIN SYMBOL_LIST :
                    /\ startswith(context.more, SYMBOL_LIST[k])
                    /\ \A j \in 1..(k - 1) : ~ startswith(context.more, SYMBOL_LIST[j])]

\* pop_symbolic: the token it returns, and the context it leaves.
pop_symbolic_result(context) ==
    LET symbol == pop_symbolic_symbol(context)
    IN  Token(SYMBOLS(symbol), symbol, context.more_line, context.more_column)

\* pop_symbolic, had it left the buffer as it was.
pop_symbolic_keeping(context) ==
    LET symbol_length == Len(pop_symbolic_symbol(context))
    IN  [context EXCEPT !.more_column = @ + symbol_length]

pop_symbolic(context) ==
    LET symbol_length == Len(pop_symbolic_symbol(context))
    IN  [context EXCEPT !.more = SubSeq(@, symbol_length + 1, Len(@)),
                        !.more_column = @ + symbol_length]

\* The loop `while context.more` of tok_symbolic: the tokens popped, the
\* context left, and whether pop_symbolic raised.
RECURSIVE pop_all(_)
pop_all(context) ==
    IF context.more = <<>> THEN [tokens |-> <<>>, context |-> context, raised |-> FALSE]
    ELSE IF ~ pop_symbolic_matches(context)
    THEN [tokens |-> <<>>, context |-> context, raised |-> TRUE]
    ELSE LET rest == pop_all(pop_symbolic(context))
         IN  [rest EXCEPT !.tokens = <<pop_symbolic_result(context)>> \o @]

\* tok_symbolic once the run has ended: the tokens popped, then tok_start.
tok_symbolic_end(char, popped, keywords) ==
    IF popped.raised
    THEN [Raise(<<"Unexpected character", SYMBOL_LIST[Len(SYMBOL_LIST)]>>,
                popped.context, keywords) EXCEPT !.dropped = popped.tokens]
    ELSE forwarded(popped.tokens, tok_start(char, popped.context, keywords))

tok_symbolic(char, context, keywords) ==
    IF is_symbolic(char)
    THEN Return(<<>>, "tok_symbolic", add_more(context, char), keywords)
    ELSE tok_symbolic_end(char, pop_all(context), keywords)

\* tok_start without the branch for a byte-order mark at the beginning.
tok_start_without_bom(char, context, keywords) ==
    IF is_identifier_start(char) \/ char = "_" THEN tok_identifier(char, context, keywords)
    ELSE IF is_symbolic(char) THEN tok_symbolic(char, context, keywords)
    ELSE IF is_eol(char) THEN tok_eol(char, context, keywords)
    ELSE IF isspace(char) THEN tok_whitespace(char, context, keywords)
    ELSE IF is_eof(char)
    THEN Return(<<Token("EOF", <<char>>, context.current_line, context.current_column)>>,
                "tok_start", context, keywords)
    ELSE Raise(<<"Unexpected character", <<char>>>>, context, keywords)

tok_start(char, context, keywords) ==
    IF is_identifier_start(char) \/ char = "_" THEN tok_identifier(char, context, keywords)
    ELSE IF is_symbolic(char) THEN tok_symbolic(char, context, keywords)
    ELSE IF is_eol(char) THEN tok_eol(char, context, keywords)
    ELSE IF isspace(char) THEN tok_whitespace(char, context, keywords)
    ELSE IF char = BOM /\ context.is_at_bof THEN Return(<<>>, "tok_start", context, keywords)
    ELSE IF is_eof(char)
    THEN Return(<<Token("EOF", <<char>>, context.current_line, context.current_column)>>,
                "tok_start", context, keywords)
    ELSE Raise(<<"Unexpected character", <<char>>>>, context, keywords)

\* state(char, context), for the state a variable holds.
call(state, char, context, keywords) ==
    CASE state = "tok_start" -> tok_start(char, context, keywords)
      [] state = "tok_whitespace" -> tok_whitespace(char, context, keywords)
      [] state = "tok_comment" -> tok_comment(char, context, keywords)
      [] state = "tok_eol" -> tok_eol(char, context, keywords)
      [] state = "tok_identifier" -> tok_identifier(char, context, keywords)
      [] state = "tok_identifier_connector" -> tok_identifier_connector(char, context, keywords)
      [] state = "err_identifier" -> err_identifier(char, context, keywords)
      [] state = "tok_symbolic" -> tok_symbolic(char, context, keywords)

(***************************************************************************)
(* __init__.py: the driver.  A scan is one call of tokenize: the           *)
(* characters its source has given, whether the source is exhausted, the   *)
(* locals of the generator, the tokens the states returned and the tokens  *)
(* the consumer got, the tokens the state that raised had built and the    *)
(* exception discarded, and how far it is (running, done, raised).         *)
(***************************************************************************)
VARIABLES
    scans,      \* the calls of tokenize, each with its own source and context
    KEYWORDS    \* how many spellings the module's generator KEYWORDS has yielded

vars == <<scans, KEYWORDS>>

NoError == [message |-> <<>>, line |-> 0, column |-> 0, state |-> "None"]

\* TokenizerError(message, context), with the state the driver sets on it.
TokenizerError(message, context, state) ==
    [message |-> message, line |-> context.current_line,
     column |-> context.current_column, state |-> state]

NewScan ==
    [input |-> <<>>, exhausted |-> FALSE, state |-> "tok_start", context |-> NewContext,
     is_token_unfinished |-> FALSE, produced |-> <<>>, yielded |-> <<>>,
     dropped |-> <<>>, pc |-> "running", err |-> NoError]

\* bool(token): Token defines neither __bool__ nor __len__.
bool(token) == TRUE

\* The tokens of one step that tokenize yields.
yield(tokens) == SelectSeq(tokens, LAMBDA token : bool(token) /\ token.kind \notin EXTRA_TOKENS)

\* is_token_unfinished left at its initial False when a step returns no token.
unfinished_initial(tokens) == IF tokens = <<>> THEN FALSE ELSE ~ bool(tokens[Len(tokens)])

\* is_token_unfinished after the loop over the tokens of one step.
unfinished(tokens) == IF tokens = <<>> THEN TRUE ELSE ~ bool(tokens[Len(tokens)])

\* One turn of the loop of tokenize, had it left is_at_bof alone.
returned_leaving_bof(scan, char, result) ==
    [scan EXCEPT
        !.state = result.state,
        !.context = result.context,
        !.is_token_unfinished = unfinished(result.tokens),
        !.produced = @ \o result.tokens,
        !.yielded = @ \o yield(result.tokens),
        !.pc = IF ~ is_eof(char) THEN "running"
               ELSE IF unfinished(result.tokens) THEN "raised" ELSE "done",
        !.err = IF is_eof(char) /\ unfinished(result.tokens)
                THEN TokenizerError(<<"Unexpected end of file">>, result.context, result.state)
                ELSE @]

\* One turn of the loop of tokenize once the state has returned normally.
returned(scan, char, result) ==
    [scan EXCEPT
        !.state = result.state,
        !.context = [result.context EXCEPT !.is_at_bof = FALSE],
        !.is_token_unfinished = unfinished(result.tokens),
        !.produced = @ \o result.tokens,
        !.yielded = @ \o yield(result.tokens),
        !.pc = IF ~ is_eof(char) THEN "running"
               ELSE IF unfinished(result.tokens) THEN "raised" ELSE "done",
        !.err = IF is_eof(char) /\ unfinished(result.tokens)
                THEN TokenizerError(<<"Unexpected end of file">>, result.context, result.state)
                ELSE @]

\* The TokenizerError of the state leaves tokenize as the state raised it, its
\* state attribute never set.
raised_without_state(scan, result) ==
    [scan EXCEPT !.context = result.context,
                 !.dropped = result.dropped,
                 !.pc = "raised",
                 !.err = TokenizerError(result.raised, result.context, result.state)]

\* The TokenizerError of the state leaves tokenize, with the state set on it.
raised(scan, result) ==
    [scan EXCEPT !.context = result.context,
                 !.dropped = result.dropped,
                 !.pc = "raised",
                 !.err = TokenizerError(result.raised, result.context, scan.state)]

\* One turn of the loop of tokenize, for the character _next_char returned
\* and what state(char, context) did with it.
step(scan, char, result) ==
    IF result.raised # <<>> THEN raised(scan, result) ELSE returned(scan, char, result)

\* tokenize reads a character (NUL once the source is exhausted) and feeds it.
Feed(s, char, read, result) ==
    /\ scans' = [scans EXCEPT ![s] = [step(scans[s], char, result) EXCEPT
                                          !.input = @ \o read,
                                          !.exhausted = (read = <<>>)]]
    /\ KEYWORDS' = result.keywords

\* _next_char reads a character of the source and tokenize feeds it to the state.
ReadChar(s, char, limit) ==
    /\ scans[s].pc = "running"
    /\ Len(scans[s].input) < limit
    /\ Feed(s, char, <<char>>, call(scans[s].state, char, scans[s].context, KEYWORDS))

\* _next_char finds the source exhausted and tokenize feeds the sentinel NUL.
ReadEnd(s) ==
    /\ scans[s].pc = "running"
    /\ Feed(s, NUL, <<>>, call(scans[s].state, NUL, scans[s].context, KEYWORDS))

Init ==
    /\ scans = [s \in {1} |-> NewScan]
    /\ KEYWORDS = 0

Next ==
    \/ \E s \in DOMAIN scans, char \in Alphabet : ReadChar(s, char, MaxLen)
    \/ \E s \in DOMAIN scans : ReadEnd(s)

Spec == Init /\ [][Next]_vars

\* Some call of tokenize has neither ended nor raised.  ReadEnd is enabled for
\* exactly such a call, so this is ENABLED <<Next>>_vars.
Running == \E s \in DOMAIN scans : scans[s].pc = "running"

\* The consumer of the generator asks for tokens until the generator ends or
\* raises, so a running scan takes its next turn of the loop: weak fairness
\* of Next, written out with Running for ENABLED <<Next>>_vars.
SpecConsumed == Init /\ [][Next]_vars /\ ([]<>(~ Running) \/ []<><<Next>>_vars)

\* Two scans, each with its own source and context, whose steps interleave.
InitPair ==
    /\ scans = [s \in {1, 2} |-> NewScan]
    /\ KEYWORDS = 0

NextPair ==
    \/ \E s \in DOMAIN scans, char \in PairAlphabet : ReadChar(s, char, PairMaxLen)
    \/ \E s \in DOMAIN scans : ReadEnd(s)

SpecPair == InitPair /\ [][NextPair]_vars

(***************************************************************************)
(* Properties of the scans.                                                *)
(***************************************************************************)
Scans == DOMAIN scans

\* The characters tokenize has fed to the states of a scan.
Fed(scan) == scan.input \o (IF scan.exhausted THEN <<NUL>> ELSE <<>>)

Kinds(tokens) == [k \in DOMAIN tokens |-> tokens[k].kind]

RECURSIVE Images(_)
Images(tokens) == IF tokens = <<>> THEN <<>> ELSE Head(tokens).img \o Images(Tail(tokens))

KeywordKinds == {name(TokenKind[k]) : k \in {j \in DOMAIN TokenKind : TokenKind[j].head = "KW_"}}

\* The tokens a step has added to those the states returned.
NewTokens(s) ==
    SubSeq(scans'[s].produced, Len(scans[s].produced) + 1, Len(scans'[s].produced))

\* Where the k-th token of a scan starts: the number of characters before it.
Offset(scan, k) ==
    Len(Images(SubSeq(scan.produced, 1, k - 1)))
        + (IF Fed(scan) # <<>> /\ Fed(scan)[1] = BOM THEN 1 ELSE 0)

\* The number of characters before the line of the character at an offset.
LineStart(text, offset) ==
    LET ends == {p \in 1..offset : p <= Len(text) /\ is_eol(text[p])}
    IN  IF ends = {} THEN 0 ELSE CHOOSE p \in ends : \A q \in ends : q <= p

\* The line terminators (\r\n, a lone \r, a lone \n) that end before an offset.
Terminators(text, offset) ==
    {p \in 1..offset :
        /\ p <= Len(text)
        /\ \/ text[p] = LF
           \/ text[p] = CR /\ ~ (p < Len(text) /\ text[p + 1] = LF)}

\* C1: a token whose text is a keyword spelling has the KW_ kind of that
\* spelling, never IDENTIFIER, wherever it occurs and whatever was resolved
\* before it; an identifier that is no keyword spelling and does not start
\* with a connector is an IDENTIFIER token.
C1_KeywordPrecedence ==
    \A s \in Scans : \A k \in DOMAIN scans[s].produced :
        LET token == scans[s].produced[k]
        IN  /\ token.img \in Range(KeywordSpellings) => token.kind = "KW_" \o upper(token.img)
            /\ ( /\ token.kind \in KeywordKinds \cup {"IDENTIFIER", "DUMMY_IDENTIFIER"}
                 /\ token.img \notin Range(KeywordSpellings)
                 /\ ~ is_identifier_connector(token.img[1]) ) => token.kind = "IDENTIFIER"

\* The longest spelling of the symbol table that a run starts with.
LongestSpelling(run) ==
    CHOOSE symbol \in Range(SYMBOLS_keys) :
        /\ startswith(run, symbol)
        /\ \A other \in Range(SYMBOLS_keys) : startswith(run, other) => Len(other) <= Len(symbol)

RECURSIVE Munch(_)
Munch(run) ==
    IF run = <<>> THEN <<>>
    ELSE <<LongestSpelling(run)>>
            \o Munch(SubSeq(run, Len(LongestSpelling(run)) + 1, Len(run)))

\* A step of scan s ends a run of symbolic characters and returns its tokens.
RunEnds(s) ==
    /\ scans[s].pc = "running"
    /\ scans[s].state = "tok_symbolic"
    /\ scans'[s].pc # "raised"
    /\ scans'[s].state # "tok_symbolic"

Munched(tokens, spellings) ==
    /\ Len(tokens) >= Len(spellings)
    /\ \A k \in DOMAIN spellings :
          tokens[k].img = spellings[k] /\ tokens[k].kind = SYMBOLS(spellings[k])

\* C2: maximal munch: when a character that is not symbolic ends a run of
\* symbolic characters, each token peeled from the run is the longest spelling
\* of the symbol table that the rest of the run starts with (so <= is one
\* OP_LEQ token and <> one OP_NEQ token).
C2_MaximalMunch ==
    [][\A s \in Scans :
          RunEnds(s) => Munched(NewTokens(s), Munch(scans[s].context.more))]_vars

\* The run <=<> has been scanned: one OP_LEQ token, then one OP_NEQ token.
C2_Witness ==
    \E s \in Scans :
        /\ scans[s].pc = "done"
        /\ scans[s].input = <<"<", "=", "<", ">">>
        /\ Kinds(scans[s].produced) = <<"OP_LEQ", "OP_NEQ", "EOF">>

\* C3: between two identifiers, \r alone and \r\n each yield exactly one
\* END_OF_LINE token: a\r\nb is IDENTIFIER, END_OF_LINE, IDENTIFIER, EOF.
C3_LineEndingNormalization ==
    \A s \in Scans :
        ( /\ scans[s].pc = "done"
          /\ scans[s].exhausted
          /\ \E a, b \in {"i", "f"} :
                scans[s].input \in {<<a, CR, b>>, <<a, CR, LF, b>>} )
        => Kinds(scans[s].yielded) = <<"IDENTIFIER", "END_OF_LINE", "IDENTIFIER", "EOF">>

\* C4: the consumer gets no token after an EOF token, and a scan that ends
\* without raising has yielded exactly one EOF token, as its last token.
C4_EofLast ==
    \A s \in Scans :
        LET tokens == scans[s].yielded
        IN  /\ \A k \in DOMAIN tokens :
                  tokens[k].kind = "EOF" => k = Len(tokens) /\ scans[s].pc = "done"
            /\ scans[s].pc = "done" => tokens # <<>> /\ tokens[Len(tokens)].kind = "EOF"

\* A scan of two tokens and more has ended without raising.
C4_Witness ==
    \E s \in Scans :
        /\ scans[s].pc = "done"
        /\ Len(scans[s].yielded) >= 3
        /\ scans[s].yielded[Len(scans[s].yielded)].kind = "EOF"

\* C5: no token the consumer gets has kind WHITE_SPACE.
C5_NoWhiteSpaceYielded ==
    \A s \in Scans : \A k \in DOMAIN scans[s].yielded :
        scans[s].yielded[k].kind # "WHITE_SPACE"

\* A scan has ended whose states returned a WHITE_SPACE token holding a comment.
C5_Witness ==
    \E s \in Scans :
        /\ scans[s].pc = "done"
        /\ \E k \in DOMAIN scans[s].produced :
              /\ scans[s].produced[k].kind = "WHITE_SPACE"
              /\ "#" \in Range(scans[s].produced[k].img)
        /\ Len(scans[s].yielded) < Len(scans[s].produced)

\* C6: positions are monotonic: of two tokens the states of one scan return,
\* the later one is at no lesser (line, column) than the earlier one.
C6_PositionsMonotonic ==
    \A s \in Scans : \A j, k \in DOMAIN scans[s].produced :
        LET earlier == scans[s].produced[j]
            later == scans[s].produced[k]
        IN  j < k => \/ earlier.line < later.line
                     \/ earlier.line = later.line /\ earlier.column <= later.column

\* C7: the column of a token is the 0-based column of its first character;
\* the current column is the number of characters processed on the line, and
\* the recorded start column of the buffer is the column of its first character.
C7_Columns ==
    \A s \in Scans :
        LET scan == scans[s]
            text == Fed(scan)
            start == Len(text) - Len(scan.context.more)
        IN  /\ \A k \in DOMAIN scan.produced :
                  scan.produced[k].column
                      = Offset(scan, k) - LineStart(text, Offset(scan, k))
            /\ scan.pc = "running" =>
                  scan.context.current_column = Len(text) - LineStart(text, Len(text))
            /\ (scan.pc = "running" /\ scan.context.more # <<>>) =>
                  scan.context.more_column = start - LineStart(text, start)

\* C8: the line of a token is the 1-based line of its first character: 1 plus
\* the number of line terminators before that character.
C8_Lines ==
    \A s \in Scans :
        scans[s].pc = "done" =>
            \A k \in DOMAIN scans[s].produced :
                scans[s].produced[k].line
                    = 1 + Cardinality(Terminators(Fed(scans[s]), Offset(scans[s], k)))

\* C9, as claimed: the texts of the tokens the states returned, in order,
\* make up the input of a scan that has not raised.
C9_TotalCoverage ==
    \A s \in Scans :
        scans[s].pc = "done" => Images(scans[s].produced) = scans[s].input

WithoutLeadingBom(text) == IF text # <<>> /\ text[1] = BOM THEN Tail(text) ELSE text

\* C9, amended: the texts of the tokens the states returned, in order, make
\* up the characters fed to the states (the input up to its first NUL or SUB,
\* or the input and the sentinel NUL), less a byte-order mark at their start.
C9_FedCoverage ==
    \A s \in Scans :
        scans[s].pc = "done" =>
            Images(scans[s].produced) = WithoutLeadingBom(Fed(scans[s]))

\* A scan that began with a byte-order mark has ended, a WHITE_SPACE token
\* among the tokens its states returned.
C9_Witness ==
    \E s \in Scans :
        /\ scans[s].pc = "done"
        /\ Len(scans[s].input) >= 3
        /\ scans[s].input[1] = BOM
        /\ \E k \in DOMAIN scans[s].produced : scans[s].produced[k].kind = "WHITE_SPACE"

\* C10: scans are independent: what a scan yields, or the error it raises,
\* depends on its own input only, whatever other scan ran before it or runs
\* beside it.
C10_ScansIndependent ==
    \A s, t \in Scans :
        ( /\ scans[s].pc # "running"
          /\ scans[t].pc # "running"
          /\ scans[s].input = scans[t].input
          /\ scans[s].exhausted = scans[t].exhausted )
        => /\ scans[s].yielded = scans[t].yielded
           /\ scans[s].err = scans[t].err

\* A character that neither continues an identifier nor connects its parts.
EndsIdentifier(char) == ~ is_identifier_continue(char) /\ ~ is_identifier_connector(char)

\* C11: a single connector character (any character of category Pc) that
\* starts a token and is followed by a character that is neither
\* identifier-continue nor connector raises no error, and the states return
\* exactly one DUMMY_IDENTIFIER token for it, its text that one character.
C11_PlaceholderIdentifier ==
    \A s \in Scans :
        LET scan == scans[s]
            text == Fed(scan)
        IN  (text # <<>> /\ is_identifier_connector(text[1])) =>
                /\ scan.pc = "raised" => Len(text) >= 2
                /\ (Len(text) >= 2 /\ EndsIdentifier(text[2]) /\ scan.pc # "raised") =>
                      /\ scan.produced[1] = Token("DUMMY_IDENTIFIER", <<text[1]>>, 1, 0)
                      /\ \A k \in DOMAIN scan.produced :
                            scan.produced[k].kind = "DUMMY_IDENTIFIER" => k = 1

\* C12: the text of every DUMMY_IDENTIFIER token is exactly one connector
\* character; a longer text that begins with a connector (such as _i) is
\* never a DUMMY_IDENTIFIER token.
C12_DummyIsSingleConnector ==
    \A s \in Scans : \A k \in DOMAIN scans[s].produced :
        scans[s].produced[k].kind = "DUMMY_IDENTIFIER" =>
            /\ Len(scans[s].produced[k].img) = 1
            /\ is_identifier_connector(scans[s].produced[k].img[1])

\* The character the latest step of a scan fed to its state.
LastFed(scan) == Fed(scan)[Len(Fed(scan))]

\* Scan s takes a step: tokenize feeds one more character to its state.
Steps(s) == scans[s].pc = "running" /\ scans'[s] # scans[s]

\* How many of the tokens have a kind.
CountKind(tokens, kind) == Cardinality({k \in DOMAIN tokens : tokens[k].kind = kind})

\* The tokens the state has built in a step of scan s: those it returned,
\* or those it had built when it raised.
Built(s) == NewTokens(s) \o scans'[s].dropped

UnexpectedEndOfFile(scan) ==
    scan.pc = "raised" /\ scan.err.message = <<"Unexpected end of file">>

\* C14: once the state has returned from the end-of-stream sentinel, tokenize
\* raises 'Unexpected end of file' exactly when the buffer of the context is
\* not empty; otherwise the buffer is empty, the EOF token is the last token
\* yielded and the scan ends without raising.
C14_UnexpectedEofIffPending ==
    \A s \in Scans :
        LET scan == scans[s]
        IN  /\ UnexpectedEndOfFile(scan) =>
                  /\ is_eof(LastFed(scan))
                  /\ scan.context.more # <<>>
                  /\ \A k \in DOMAIN scan.yielded : scan.yielded[k].kind # "EOF"
            /\ scan.pc = "done" =>
                  /\ is_eof(LastFed(scan))
                  /\ scan.context.more = <<>>
                  /\ scan.yielded # <<>>
                  /\ scan.yielded[Len(scan.yielded)].kind = "EOF"

\* The source ran out inside a comment: tokenize raised with the comment in
\* the buffer.
C14_Witness ==
    \E s \in Scans :
        /\ UnexpectedEndOfFile(scans[s])
        /\ scans[s].exhausted
        /\ "#" \in Range(scans[s].context.more)

\* C15, as claimed: when the sentinel arrives in the whitespace state, the
\* comment state or the symbol-run state, the buffer holding text, tokenize
\* raises 'Unexpected end of file'.
C15_EofInsideBufferRaises ==
    [][\A s \in Scans :
          ( /\ Steps(s)
            /\ is_eof(LastFed(scans'[s]))
            /\ scans[s].state \in {"tok_whitespace", "tok_comment", "tok_symbolic"}
            /\ scans[s].context.more # <<>> )
          => UnexpectedEndOfFile(scans'[s])]_vars

\* C15, amended: when the sentinel arrives in the comment state, tokenize
\* raises 'Unexpected end of file' and no token is returned; in the
\* whitespace state the buffer becomes a WHITE_SPACE token, the EOF token
\* follows and the scan ends; in the symbol-run state either the run becomes
\* its tokens, the EOF token follows and the scan ends, or the unresolved run
\* raises 'Unexpected character': never 'Unexpected end of file'.
C15_EofInsideCommentRaises ==
    [][\A s \in Scans :
          LET before == scans[s]
              after == scans'[s]
              run == before.context.more
              tokens == NewTokens(s)
          IN  (Steps(s) /\ is_eof(LastFed(after))) =>
                /\ before.state = "tok_comment" =>
                      UnexpectedEndOfFile(after) /\ tokens = <<>>
                /\ before.state = "tok_whitespace" =>
                      /\ after.pc = "done"
                      /\ Kinds(tokens) = <<"WHITE_SPACE", "EOF">>
                      /\ tokens[1].img = run
                /\ before.state = "tok_symbolic" =>
                      \/ /\ after.pc = "done"
                         /\ Images(tokens) = run \o <<LastFed(after)>>
                         /\ tokens[Len(tokens)].kind = "EOF"
                         /\ Munched(tokens, Munch(run))
                      \/ /\ after.pc = "raised"
                         /\ after.err.message[1] = "Unexpected character"
                         /\ after.err.state = "tok_symbolic"
                         /\ tokens = <<>>]_vars

\* The source ran out after trailing blanks: a WHITE_SPACE token, the EOF
\* token, and no error.
C15_Witness ==
    \E s \in Scans :
        /\ scans[s].pc = "done"
        /\ scans[s].exhausted
        /\ scans[s].input = <<"i", " ", " ">>
        /\ Kinds(scans[s].produced) = <<"IDENTIFIER", "WHITE_SPACE", "EOF">>
        /\ Kinds(scans[s].yielded) = <<"IDENTIFIER", "EOF">>

\* tokenize run on the characters its source gives (the sentinel after them)
\* from a given turn of its loop on, until it ends or raises.
RECURSIVE tokenize(_, _, _)
tokenize(chars, scan, keywords) ==
    IF chars = <<>> \/ scan.pc # "running" THEN scan
    ELSE LET result == call(scan.state, Head(chars), scan.context, keywords)
         IN  tokenize(Tail(chars), step(scan, Head(chars), result), result.keywords)

\* A scan of the characters a source holds, the module as it is once loaded.
ScanOf(source) == tokenize(source \o <<NUL>>, NewScan, 0)

Texts(tokens) == [k \in DOMAIN tokens |-> tokens[k].img]

\* A scan has ended (or raised) on an input that begins with a byte-order mark.
EndedAfterBom(scan) ==
    scan.pc # "running" /\ scan.input # <<>> /\ scan.input[1] = BOM

\* C16, as claimed: a byte-order mark that is the first character yields no
\* token: the input of just the mark yields the EOF token only, and for any
\* input the scan of the mark followed by the input yields tokens of the same
\* kinds and texts as the scan of the input.
C16_LeadingBomSilent ==
    \A s \in Scans :
        /\ (scans[s].input = <<BOM>> /\ scans[s].exhausted) =>
              scans[s].pc = "done" /\ Kinds(scans[s].yielded) = <<"EOF">>
        /\ EndedAfterBom(scans[s]) =>
              LET without == ScanOf(Tail(scans[s].input))
              IN  /\ Kinds(scans[s].yielded) = Kinds(without.yielded)
                  /\ Texts(scans[s].yielded) = Texts(without.yielded)

\* C16, amended: the same for any input that does not itself begin with a
\* byte-order mark; the two scans also end alike, cleanly or with the same
\* error message.
C16_LeadingBomSilentOnce ==
    \A s \in Scans :
        /\ (scans[s].input = <<BOM>> /\ scans[s].exhausted) =>
              scans[s].pc = "done" /\ Kinds(scans[s].yielded) = <<"EOF">>
        /\ ( /\ EndedAfterBom(scans[s])
             /\ Len(scans[s].input) >= 2 => scans[s].input[2] # BOM )
           => LET without == ScanOf(Tail(scans[s].input))
              IN  /\ Kinds(scans[s].yielded) = Kinds(without.yielded)
                  /\ Texts(scans[s].yielded) = Texts(without.yielded)
                  /\ scans[s].pc = without.pc
                  /\ scans[s].err.message = without.err.message

\* A scan of a byte-order mark and three characters more has ended and
\* yielded an identifier, and another token before the EOF token.
C16_Witness ==
    \E s \in Scans :
        /\ scans[s].pc = "done"
        /\ Len(scans[s].input) = 4
        /\ scans[s].input[1] = BOM
        /\ Len(scans[s].yielded) >= 3
        /\ \E k \in DOMAIN scans[s].yielded : scans[s].yielded[k].kind = "IDENTIFIER"

\* C17: the scan of an empty input yields exactly one token, the EOF token at
\* line 1, column 0, and ends without raising.
C17_EmptyInput ==
    \A s \in Scans :
        (scans[s].input = <<>> /\ scans[s].exhausted) =>
            /\ scans[s].pc = "done"
            /\ scans[s].err = NoError
            /\ Len(scans[s].yielded) = 1
            /\ scans[s].yielded[1].kind = "EOF"
            /\ scans[s].yielded[1].line = 1
            /\ scans[s].yielded[1].column = 0

\* The source of a scan was empty and the scan has ended.
C17_Witness ==
    \E s \in Scans :
        /\ scans[s].input = <<>>
        /\ scans[s].exhausted
        /\ scans[s].pc = "done"
        /\ Kinds(scans[s].produced) = <<"EOF">>

\* The TokenizerError of pop_symbolic: no spelling of the symbol table starts
\* what is left of a run of symbolic characters.
UnresolvedSymbolRun(scan) ==
    /\ scan.pc = "raised"
    /\ scan.err.state = "tok_symbolic"
    /\ scan.err.message = <<"Unexpected character", SYMBOL_LIST[Len(SYMBOL_LIST)]>>

\* C18: a run of symbolic characters never raises: every character of a run,
\* accepted by is_symbolic, is by itself a spelling of the symbol table, so
\* pop_symbolic finds a spelling at the start of every non-empty run and no
\* scan raises its TokenizerError.
C18_SymbolRunNeverFatal ==
    \A s \in Scans :
        /\ scans[s].state = "tok_symbolic" =>
              \A k \in DOMAIN scans[s].context.more :
                  /\ is_symbolic(scans[s].context.more[k])
                  /\ <<scans[s].context.more[k]>> \in Range(SYMBOLS_keys)
        /\ ~ UnresolvedSymbolRun(scans[s])

\* C19: every TokenizerError that leaves tokenize carries a tokenizer state,
\* not None: the state tokenize held when it fed the failing character; the
\* step that raises yields no token and a scan that has raised yields no more.
C19_ErrorCarriesState ==
    [][\A s \in Scans :
          /\ (Steps(s) /\ scans'[s].pc = "raised") =>
                /\ scans'[s].err.state # "None"
                /\ scans'[s].err.state = scans[s].state
                /\ scans'[s].err.message # <<>>
                /\ scans'[s].yielded = scans[s].yielded
          /\ scans[s].pc = "raised" =>
                /\ scans'[s].pc = "raised"
                /\ scans'[s].err = scans[s].err
                /\ scans'[s].yielded = scans[s].yielded]_vars

\* A scan that had yielded a token has raised from inside an identifier.
C19_Witness ==
    \E s \in Scans :
        /\ scans[s].pc = "raised"
        /\ scans[s].err.state = "tok_identifier"
        /\ scans[s].err.message[1] = "Unexpected character"
        /\ Len(scans[s].yielded) >= 1

IdentifierStates == {"tok_identifier", "tok_identifier_connector", "err_identifier"}

IdentifierKinds ==
    KeywordKinds \cup {"IDENTIFIER", "DUMMY_IDENTIFIER", "ERR_IDENTIFIER"}

\* C21: the end-of-stream sentinel is a delimiter: when it arrives in the
\* identifier, identifier-after-connector or erroneous-identifier state, the
\* buffer becomes one token (a keyword, an identifier, a dummy or an erroneous
\* identifier) with the buffer as its text, the EOF token follows it, both are
\* yielded, and the scan ends without raising.
C21_SentinelEndsIdentifier ==
    [][\A s \in Scans :
          ( /\ Steps(s)
            /\ scans[s].state \in IdentifierStates
            /\ is_eof(LastFed(scans'[s])) )
          => /\ scans'[s].pc = "done"
             /\ scans'[s].err = NoError
             /\ Len(NewTokens(s)) = 2
             /\ NewTokens(s)[1].kind \in IdentifierKinds
             /\ NewTokens(s)[1].img = scans[s].context.more
             /\ NewTokens(s)[1].line = scans[s].context.more_line
             /\ NewTokens(s)[2].kind = "EOF"
             /\ scans'[s].yielded = scans[s].yielded \o NewTokens(s)
             /\ scans[s].state = "err_identifier" => NewTokens(s)[1].kind = "ERR_IDENTIFIER"
             /\ scans[s].state = "tok_identifier" =>
                   NewTokens(s)[1].kind \in IdentifierKinds \ {"ERR_IDENTIFIER"}]_vars

\* The source ran out inside the identifier ff: IDENTIFIER ff, then EOF.
C21_Witness ==
    \E s \in Scans :
        /\ scans[s].pc = "done"
        /\ scans[s].exhausted
        /\ scans[s].input = <<" ", "f", "f">>
        /\ Kinds(scans[s].yielded) = <<"IDENTIFIER", "EOF">>
        /\ scans[s].yielded[1].img = <<"f", "f">>

\* The text of a comment as tok_comment buffers it: blanks, then a #, then
\* characters that end no line.
IsCommentText(text) ==
    \E p \in DOMAIN text :
        /\ p > 1
        /\ text[p] = "#"
        /\ \A k \in 1..(p - 1) : isspace(text[k]) /\ ~ is_eol(text[k])
        /\ \A k \in DOMAIN text : ~ is_eol(text[k])

\* C22: a comment is merged with the whitespace before it.  A # read in the
\* whitespace state joins the buffered whitespace and no token is built; the
\* comment state buffers every character that ends no line; the character
\* that ends the line makes the whole buffer exactly one WHITE_SPACE token and
\* is handed to the start state, where \r becomes an END_OF_LINE token of its
\* own and \n starts the buffer of one.  So the buffer of the comment state is
\* always the text of a comment, and it never becomes a token of another kind.
C22_CommentMergedWithWhitespace ==
    [][\A s \in Scans :
          LET before == scans[s]
              after == scans'[s]
              char == LastFed(after)
              buffer == before.context.more
          IN  /\ after.state = "tok_comment" => IsCommentText(after.context.more)
              /\ ( /\ Steps(s)
                   /\ \/ before.state = "tok_whitespace" /\ char = "#"
                      \/ before.state = "tok_comment" /\ ~ is_eol(char) )
                 => /\ Built(s) = <<>>
                    /\ after.state = "tok_comment"
                    /\ after.context.more = buffer \o <<char>>
                    /\ after.pc = "raised" => UnexpectedEndOfFile(after)
              /\ (Steps(s) /\ before.state = "tok_comment" /\ is_eol(char))
                 => /\ after.pc = "running"
                    /\ NewTokens(s)[1] = Token("WHITE_SPACE", buffer,
                                               before.context.more_line,
                                               before.context.more_column)
                    /\ char = CR =>
                          /\ Kinds(NewTokens(s)) = <<"WHITE_SPACE", "END_OF_LINE">>
                          /\ NewTokens(s)[2].img = <<CR>>
                          /\ after.state = "tok_start"
                    /\ char = LF =>
                          /\ Kinds(NewTokens(s)) = <<"WHITE_SPACE">>
                          /\ after.state = "tok_eol"
                          /\ after.context.more = <<LF>>]_vars

\* The input ' #i' and a line feed has been scanned: one WHITE_SPACE token
\* ' #i', one END_OF_LINE token, the EOF token.
C22_Witness ==
    \E s \in Scans :
        /\ scans[s].pc = "done"
        /\ scans[s].input = <<" ", "#", "i", LF>>
        /\ Kinds(scans[s].produced) = <<"WHITE_SPACE", "END_OF_LINE", "EOF">>
        /\ scans[s].produced[1].img = <<" ", "#", "i">>
        /\ scans[s].produced[2].img = <<LF>>

\* A text begins or ends with a connector, or holds two adjacent connectors.
MisplacedConnector(text) ==
    \/ is_identifier_connector(text[1])
    \/ is_identifier_connector(text[Len(text)])
    \/ \E k \in 1..(Len(text) - 1) :
          is_identifier_connector(text[k]) /\ is_identifier_connector(text[k + 1])

SymbolKinds == {SYMBOLS(SYMBOLS_keys[k]) : k \in DOMAIN SYMBOLS_keys}

\* The tokens pop_symbolic has peeled in a step of scan s that ends a run.
Peeled(s) == SelectSeq(Built(s), LAMBDA token : token.kind \in SymbolKinds)

\* C25: the tokens peeled from one symbol run are contiguous: each has the
\* line recorded for the run, the first has the start column recorded for the
\* run, each later one the column of the one before plus the length of its
\* text, and their texts, in order, make up the buffered run.
C25_PeeledContiguous ==
    [][\A s \in Scans :
          ( /\ Steps(s)
            /\ scans[s].state = "tok_symbolic"
            /\ ~ is_symbolic(LastFed(scans'[s])) )
          => /\ \A k \in DOMAIN Peeled(s) :
                   /\ Peeled(s)[k].line = scans[s].context.more_line
                   /\ Peeled(s)[k].column =
                         scans[s].context.more_column
                             + Len(Images(SubSeq(Peeled(s), 1, k - 1)))
             /\ Images(Peeled(s)) = scans[s].context.more]_vars

\* C26: tokenize stops at the first end-of-stream character: once a NUL (of
\* the exhausted source, or in the input) or a SUB has been fed, the scan has
\* ended or raised and reads no more, so that character is the last one fed
\* and no token holds a character after it.
C26_StopsAtFirstEof ==
    \A s \in Scans :
        /\ \A k \in DOMAIN Fed(scans[s]) :
              Fed(scans[s])[k] \in {NUL, SUB} =>
                  /\ k = Len(Fed(scans[s]))
                  /\ scans[s].pc # "running"
        /\ \A k \in DOMAIN scans[s].produced : \A p \in DOMAIN scans[s].produced[k].img :
              scans[s].produced[k].img[p] \in {NUL, SUB} =>
                  /\ k = Len(scans[s].produced)
                  /\ scans[s].produced[k].kind = "EOF"
                  /\ scans[s].pc = "done"

\* A SUB in the input has ended a scan: the EOF token holds it, and the
\* source was not exhausted.
C26_Witness ==
    \E s \in Scans :
        /\ scans[s].pc = "done"
        /\ ~ scans[s].exhausted
        /\ Len(scans[s].input) >= 3
        /\ LastFed(scans[s]) = SUB
        /\ scans[s].yielded[Len(scans[s].yielded)].img = <<SUB>>

\* C27: when a scan raises an 'Unexpected character' error, every token
\* completed before (the token that the offending character itself completed
\* included, such as the identifier i of i#) has been yielded to the consumer.
C27_CompletedTokensYielded ==
    \A s \in Scans :
        (scans[s].pc = "raised" /\ scans[s].err.message[1] = "Unexpected character") =>
            scans[s].yielded = yield(scans[s].produced \o scans[s].dropped)

BufferingStates ==
    {"tok_whitespace", "tok_comment", "tok_eol", "tok_identifier",
     "tok_identifier_connector", "err_identifier", "tok_symbolic"}

\* C28: between two characters fed, the state is the start state exactly when
\* the buffer is empty: in the whitespace, comment, eol, identifier,
\* identifier-after-connector, erroneous-identifier and symbol-run states the
\* buffer holds text.
C28_StartStateIffEmptyBuffer ==
    \A s \in Scans :
        scans[s].pc = "running" =>
            /\ scans[s].state \in BufferingStates \cup {"tok_start"}
            /\ scans[s].state = "tok_start" <=> scans[s].context.more = <<>>
            /\ scans[s].state \in BufferingStates => scans[s].context.more # <<>>

\* After an identifier and a \r the scan is back in the start state, its
\* buffer empty.
C28_Witness ==
    \E s \in Scans :
        /\ scans[s].pc = "running"
        /\ Len(scans[s].input) >= 2
        /\ LastFed(scans[s]) = CR
        /\ Len(scans[s].produced) = 2
        /\ scans[s].state = "tok_start"
        /\ scans[s].context.more = <<>>

\* C29: a # starts a comment only when it is read in the whitespace state
\* (the comment state, once entered, absorbs it): in every other state it
\* reaches the start state (at the beginning of the stream or of a line, or
\* right after an identifier, a symbol run or a line end), which raises
\* 'Unexpected character' about it, unless the symbol run it ends has raised
\* before.
C29_HashOnlyAfterWhitespace ==
    [][\A s \in Scans :
          (Steps(s) /\ LastFed(scans'[s]) = "#") =>
              /\ scans[s].state = "tok_whitespace" =>
                    scans'[s].pc = "running" /\ scans'[s].state = "tok_comment"
              /\ scans'[s].state = "tok_comment" =>
                    scans[s].state \in {"tok_whitespace", "tok_comment"}
              /\ scans[s].state \notin {"tok_whitespace", "tok_comment"} =>
                    /\ scans'[s].pc = "raised"
                    /\ NewTokens(s) = <<>>
                    /\ \/ scans'[s].err.message = <<"Unexpected character", <<"#">>>>
                       \/ UnresolvedSymbolRun(scans'[s])
              /\ scans[s].state \in {"tok_start", "tok_eol"} \cup IdentifierStates =>
                    scans'[s].err.message = <<"Unexpected character", <<"#">>>>]_vars

\* A # right after the identifier f on the second line has raised.
C29_Witness ==
    \E s \in Scans :
        /\ scans[s].pc = "raised"
        /\ scans[s].input = <<"i", LF, "f", "#">>
        /\ scans[s].err.state = "tok_identifier"
        /\ scans[s].err.message = <<"Unexpected character", <<"#">>>>

\* The buffer of a context from its k-th character on: what the loop of
\* tok_symbolic may find left after some calls of pop_symbolic.
LeftFrom(context, k) == [context EXCEPT !.more = SubSeq(@, k, Len(@))]

\* pop_symbolic, called on a buffer, raises or removes a character or more.
PeelShrinks(context) ==
    pop_symbolic_matches(context) =>
        Len(pop_symbolic(context).more) < Len(context.more)

\* A scan whose source is exhausted has been fed the sentinel, one character
\* more than its input, and has ended or raised.
EndedAtSentinel(scan) ==
    scan.exhausted => scan.pc \in {"done", "raised"} /\ Len(Fed(scan)) = Len(scan.input) + 1

\* C30: every scan that is consumed to its end terminates: it ends after
\* yielding the EOF token or it raises, having read no more than the
\* characters of its input and the sentinel; and the loop of tok_symbolic
\* terminates, each call of pop_symbolic raising or removing a character or
\* more from the buffer.
C30_Terminates ==
    /\ [](\A s \in Scans :
            /\ EndedAtSentinel(scans[s])
            /\ scans[s].pc = "done" =>
                  scans[s].yielded # <<>> /\ scans[s].yielded[Len(scans[s].yielded)].kind = "EOF"
            /\ scans[s].pc = "raised" => scans[s].err.message # <<>>
            /\ scans[s].state = "tok_symbolic" =>
                  \A k \in DOMAIN scans[s].context.more :
                      PeelShrinks(LeftFrom(scans[s].context, k)))
    /\ \A s \in {1} : <>[](scans[s].pc \in {"done", "raised"})

\* A scan has ended whose last step peeled two tokens from a run of three
\* characters.
C30_Witness ==
    \E s \in Scans :
        /\ scans[s].pc = "done"
        /\ scans[s].exhausted
        /\ scans[s].input = <<"i", "<", "<", "=">>
        /\ Kinds(scans[s].yielded) = <<"IDENTIFIER", "OP_LT", "OP_LEQ", "EOF">>


\* The recorded start position of the buffer is reset.
StartPositionReset(context) ==
    context.more_line = -1 /\ context.more_column = -1

\* C31: whenever the buffer is empty between two characters fed, its
\* recorded start position is reset to line -1, column -1; and every step
\* that completes a token and leaves the buffer empty, the step that peels
\* the last token of a symbol run included, leaves the start position reset.
C31_EmptyBufferIsReset ==
    [][\A s \in Scans :
          Steps(s) =>
              /\ scans'[s].pc = "running" /\ scans'[s].context.more = <<>> =>
                    StartPositionReset(scans'[s].context)
              /\ Built(s) # <<>> /\ scans'[s].context.more = <<>> =>
                    StartPositionReset(scans'[s].context)]_vars

\* Between two characters fed, an empty buffer has no start position: the
\* half of C31 that every step keeps.
EmptyBufferBetweenCharactersIsReset ==
    \A s \in Scans :
        scans[s].pc = "running" /\ scans[s].context.more = <<>> =>
            StartPositionReset(scans[s].context)

\* A step has peeled the last token of a symbol run, the buffer is empty and
\* the start position is the end of the run.
LastPeelKeepsPosition ==
    \E s \in Scans :
        /\ scans[s].pc = "done"
        /\ scans[s].input = <<"<", "=">>
        /\ Kinds(scans[s].yielded) = <<"OP_LEQ", "EOF">>
        /\ scans[s].context.more = <<>>
        /\ scans[s].context.more_line = 1
        /\ scans[s].context.more_column = 2

=============================================================================
